---- MODULE Spec2Model ----
(***************************************************************************)
(* Model of lightwalletd's common package (common/common.go): the block   *)
(* fetcher getBlockFromRPC, the BlockIngestor loop with its start/stop     *)
(* lifecycle, the read path GetBlock / GetBlockRange and the spam filter   *)
(* FilterSpammyBlock.  The BlockCache (cache.go) is modelled from its      *)
(* documented contract.                                                    *)
(***************************************************************************)
EXTENDS Integers, Sequences, FiniteSets, TLC

\* ------------------------------------------------------------------ bounds
\* The cache's fixed lower bound (the activation height of the test chain).
FirstHeight == 1
\* The number of heights the node serves and the cache may grow to.
MaxBlocks == 3
\* The number of BlockIngestor goroutines that may exist at once.
MaxLoops == 2
\* The number of goroutines calling startIngestor / stopIngestor.
NumCallers == 2
\* Spam filter inputs: transactions per block, outputs and actions per tx.
MaxTx == 2
MaxOutputs == 2
MaxActions == 2
\* The largest spam threshold tried.
MaxThreshold == 3
\* The longest run of failing getblockchaininfo requests.
MaxFailures == 12

MaxHeight == FirstHeight + MaxBlocks - 1
Heights == FirstHeight..MaxHeight
\* Heights a reader may ask for: one below and one above the node's heights.
AskHeights == (FirstHeight - 1)..(MaxHeight + 1)

\* ------------------------------------------------------------------- data
\* A hash is a byte string; two bytes are enough to tell the two byte orders
\* apart.  EmptyHash is the zero-length hash of an empty cache.
Hashes == {<<0, 1>>, <<1, 0>>, <<1, 1>>}
\* One more, for a forked chain whose blocks all differ from the cache's.
ForkHashes == Hashes \cup {<<0, 2>>}
EmptyHash == <<>>
\* The hash of the node's best block while its chain is below FirstHeight.
BelowHash == <<0, 0>>

\* parser.Reverse: the byte string in the opposite order.
Reverse(h) == [i \in 1..Len(h) |-> h[Len(h) + 1 - i]]

\* A nil *walletrpc.CompactBlock and a nil error.
NilBlock == [nil |-> TRUE]
NoErr == "nil"

\* Field payloads: a non-empty byte string, or nil.
Present == "bytes"
Cleared == "nil"

Output(ct, epk) == [ciphertext |-> ct, epk |-> epk]
Action(ct, epk, nf) == [ciphertext |-> ct, ephemeralKey |-> epk, nullifier |-> nf]
Tx(id, outs, acts) == [txid |-> id, outputs |-> outs, actions |-> acts]
CompactBlock(h, hash, prev, vtx) ==
    [height |-> h, hash |-> hash, prevHash |-> prev, vtx |-> vtx]

\* All sequences over S of length 0..n.
SeqUpTo(S, n) == UNION {[1..k -> S] : k \in 0..n}

\* --------------------------------------------------------------- BlockCache
\* The cache: the window [firstHeight, nextHeight) of blocks, blocks[i] being
\* the block at height firstHeight + i - 1, and the synced indicator.
NewBlockCache(first) ==
    [firstHeight |-> first, nextHeight |-> first, blocks |-> <<>>, synced |-> FALSE]

GetFirstHeight(c) == c.firstHeight

GetNextHeight(c) == c.nextHeight

GetLatestHash(c) ==
    IF Len(c.blocks) = 0 THEN EmptyHash ELSE c.blocks[Len(c.blocks)].hash

HashMatch(c, prevhash) == prevhash = GetLatestHash(c)

Get(c, h) ==
    IF h >= c.firstHeight /\ h < c.nextHeight
    THEN c.blocks[h - c.firstHeight + 1]
    ELSE NilBlock

\* Add appends only at nextHeight; out of sequence it fails and changes nothing.
Add(c, h, b) ==
    IF h = c.nextHeight
    THEN [cache |-> [c EXCEPT !.blocks = Append(@, b), !.nextHeight = @ + 1],
          err |-> NoErr]
    ELSE [cache |-> c, err |-> "out of sequence"]

\* Reorg(h) truncates so that nextHeight becomes h + 1; it never grows the cache.
Reorg(c, h) ==
    IF h + 1 >= c.firstHeight /\ h + 1 <= c.nextHeight
    THEN [c EXCEPT !.nextHeight = h + 1,
                   !.blocks = SubSeq(@, 1, h + 1 - c.firstHeight)]
    ELSE c

Sync(c) == [c EXCEPT !.synced = TRUE]

\* The chain-linkage of a sequence of blocks.
Linked(bs) == \A i \in 2..Len(bs) : bs[i].prevHash = bs[i - 1].hash

\* ------------------------------------------------------------ Block Fetcher
\* The text before the first ":" of the RPC error: zcashd's code for a height
\* it does not have yet, and any other (another code, a transport error).
NotYetMined == "-8"
OtherRpcError == "-1"

\* The result of getBlockFromRPC: the (block, error) pair it returns, or the
\* runtime panic that ends it, and the number of RawRequest calls it made.
FetchResult(b, e, n) == [block |-> b, err |-> e, panic |-> FALSE, rpcs |-> n]
FetchPanic(n) == [block |-> NilBlock, err |-> NoErr, panic |-> TRUE, rpcs |-> n]

\* The txid loop of getBlockFromRPC over the parsed transactions vtx and the
\* verbose reply's list tx: indexing tx past its end panics, an undecodable
\* entry is an error, and otherwise the id is the entry's bytes reversed.
RECURSIVE SetTxIDs(_, _, _)
SetTxIDs(vtx, tx, i) ==
    IF i > Len(vtx) THEN [kind |-> "ok", vtx |-> vtx]
    ELSE IF i > Len(tx) THEN [kind |-> "panic", vtx |-> vtx]
    ELSE IF ~tx[i].ok THEN [kind |-> "err", vtx |-> vtx]
    ELSE SetTxIDs([vtx EXCEPT ![i].txid = Reverse(tx[i].bytes)], tx, i + 1)

\* getBlockFromRPC(height) against the node's two replies: r0 to
\* getblock(height, 0) and r1 to getblock(height, 1).
\* The test on the error of the first request: is its code "-8"?
NotMinedYetAnyCode(code) == TRUE
NotMinedYet(code) == code = NotYetMined

getBlockFromRPC(h, r0, r1) ==
    IF r0.kind = "rpcerr" THEN
        IF NotMinedYet(r0.code)
        THEN FetchResult(NilBlock, NoErr, 1)
        ELSE FetchResult(NilBlock, "error requesting block", 1)
    ELSE IF r0.kind = "badjson" THEN
        FetchResult(NilBlock, "error reading JSON response", 1)
    ELSE IF r0.kind = "badhex" THEN
        FetchResult(NilBlock, "error decoding getblock output", 1)
    ELSE IF r0.kind = "badparse" THEN
        FetchResult(NilBlock, "error parsing block", 1)
    ELSE IF r0.rest # 0 THEN
        FetchResult(NilBlock, "received overlong message", 1)
    ELSE IF r0.block.height # h THEN
        FetchResult(NilBlock, "received unexpected height block", 1)
    ELSE IF r1.kind = "rpcerr" THEN
        FetchResult(NilBlock, "error requesting verbose block", 2)
    ELSE IF r1.kind = "badjson" THEN
        FetchResult(NilBlock, "error reading verbose JSON response", 2)
    ELSE LET ids == SetTxIDs(r0.block.vtx, r1.tx, 1) IN
        IF ids.kind = "panic" THEN FetchPanic(2)
        ELSE IF ids.kind = "err" THEN
            FetchResult(NilBlock, "error decoding getblock txid", 2)
        ELSE FetchResult([r0.block EXCEPT !.vtx = ids.vtx], NoErr, 2)

\* ------------------------------------------------------------------- node
\* The RPC client's replies.  A node is either arbitrary (fixed = FALSE: any
\* reply to any request), or serves one fixed chain, without failures or
\* (faulty = TRUE) with any request possibly answered by a failure.
AnyNode == [fixed |-> FALSE, faulty |-> TRUE, chain |-> <<>>]
FixedNode(chain) == [fixed |-> TRUE, faulty |-> FALSE, chain |-> chain]
FaultyNode(chain) == [fixed |-> TRUE, faulty |-> TRUE, chain |-> chain]

\* The transaction the node's blocks carry, with the id ParseFromSlice
\* derives, and the display-order id the verbose reply lists for it.
ParsedTxid == <<1, 1>>
ListedTxid == <<0, 1>>
NodeTx == Tx(ParsedTxid, <<Output(Present, Present)>>,
             <<Action(Present, Present, Present)>>)
NodeVtx == {<<>>, <<NodeTx>>}

\* The blocks an arbitrary node may send as the raw block of some height.
NodeBlocks ==
    {CompactBlock(h, hash, prev, vtx) :
        h \in Heights, hash \in Hashes, prev \in Hashes \cup {EmptyHash},
        vtx \in NodeVtx}

RpcErr(code) == [kind |-> "rpcerr", code |-> code]
HexId(h) == [ok |-> TRUE, bytes |-> h]
BadHexId == [ok |-> FALSE, bytes |-> EmptyHash]

\* The hash of the best block of a fixed chain.
TipHash(n) ==
    IF Len(n.chain) = 0 THEN BelowHash ELSE n.chain[Len(n.chain)].hash

\* Replies to getbestblockhash: the decoded bytes of the hex string, which
\* shows the hash in display order.
BestHashReplies(n) ==
    IF n.fixed
    THEN {[kind |-> "ok", bytes |-> Reverse(TipHash(n))]}
    ELSE {[kind |-> "ok", bytes |-> h] : h \in Hashes}
BestHashFailures(n) ==
    IF n.faulty
    THEN {RpcErr(OtherRpcError), [kind |-> "badjson"], [kind |-> "badhex"]}
    ELSE {}

\* The block of a fixed chain as ParseFromSlice sees it (ids not yet fixed).
Unfixed(b) == [b EXCEPT !.vtx = [i \in 1..Len(b.vtx) |-> NodeTx]]

\* Failures of getblock(height, 0), and of getblock(height, 1) for a block
\* of ntx transactions (among them a txid list one short, and a bad txid).
RawBlockFailures ==
    {RpcErr(OtherRpcError), [kind |-> "badjson"], [kind |-> "badhex"],
     [kind |-> "badparse"]}
VerboseFailures(ntx) ==
    {RpcErr(OtherRpcError), [kind |-> "badjson"]}
    \cup (IF ntx = 0 THEN {}
          ELSE {[kind |-> "ok", tx |-> [i \in 1..(ntx - 1) |-> HexId(ListedTxid)]],
                [kind |-> "ok", tx |-> [i \in 1..ntx |-> BadHexId]]})

\* Replies to getblock(height, 0).
RawBlockReplies(n, h) ==
    IF n.fixed THEN
        (IF h >= FirstHeight /\ h < FirstHeight + Len(n.chain)
         THEN {[kind |-> "ok", block |-> Unfixed(n.chain[h - FirstHeight + 1]),
                rest |-> 0]}
         ELSE {RpcErr(NotYetMined)})
        \cup (IF n.faulty THEN RawBlockFailures ELSE {})
    ELSE {RpcErr(NotYetMined)} \cup RawBlockFailures
         \cup {[kind |-> "ok", block |-> b, rest |-> k] :
                   b \in NodeBlocks, k \in 0..1}

\* Replies to getblock(height, 1): the list of txids.
VerboseReplies(n, h) ==
    IF n.fixed THEN
        IF h >= FirstHeight /\ h < FirstHeight + Len(n.chain)
        THEN LET ntx == Len(n.chain[h - FirstHeight + 1].vtx) IN
             {[kind |-> "ok", tx |-> [i \in 1..ntx |-> HexId(ListedTxid)]]}
             \cup (IF n.faulty THEN VerboseFailures(ntx) ELSE {})
        ELSE {RpcErr(NotYetMined)}
    ELSE {RpcErr(NotYetMined), RpcErr(OtherRpcError), [kind |-> "badjson"]}
         \cup {[kind |-> "ok", tx |-> t] :
                   t \in SeqUpTo({HexId(ListedTxid), BadHexId}, 2)}

\* Every outcome getBlockFromRPC(h) can have against node n.
FetchOutcomes(n, h) ==
    {getBlockFromRPC(h, r0, r1) :
        r0 \in RawBlockReplies(n, h), r1 \in VerboseReplies(n, h)}

\* ------------------------------------------------------------------ state
VARIABLES
    cache,              \* the BlockCache c
    node,               \* what the RPC client answers
    pc,                 \* per BlockIngestor goroutine: its position
    lastBestBlockHash,  \* per goroutine: the local of that name
    height,             \* per goroutine: the local of that name
    block,              \* per goroutine: the local of that name
    calls,              \* per goroutine: cache mutators called this iteration
    slept,              \* per goroutine: seconds slept this iteration
    ingestorRunning,    \* the package variable of that name
    callerPc,           \* per start/stop caller: its position
    reader,             \* the GetBlock caller: its position and argument
    getBlockRet,        \* what the last GetBlock call returned
    range,              \* the GetBlockRange call: position, arguments and i
    blockOut,           \* the blocks sent on blockOut, in order
    errOut,             \* the values sent on errOut, in order
    filt,               \* the FilterSpammyBlock call: input and result
    rpcCall,            \* the getBlockFromRPC call: height, replies, result
    firstRPC            \* the FirstRPC call: position, retryCount, sleeps

ingestVars == <<cache, node, pc, lastBestBlockHash, height, block, calls, slept>>
lifeVars == <<ingestorRunning, callerPc>>
getVars == <<reader, getBlockRet>>
rangeVars == <<range, blockOut, errOut>>
rpcVars == <<rpcCall, firstRPC>>
readVars == <<reader, getBlockRet, range, blockOut, errOut, filt, rpcCall,
              firstRPC>>
vars == <<cache, node, pc, lastBestBlockHash, height, block, calls, slept,
          ingestorRunning, callerPc, reader, getBlockRet, range, blockOut,
          errOut, filt, rpcCall, firstRPC>>

Loops == 1..MaxLoops
Callers == 1..NumCallers

\* Time.Sleep durations of the loop, in seconds.
SyncedSleep == 2
BootstrapSleep == 20

\* Log.Fatal or a panic ends the process: nothing runs afterwards.
Halted ==
    \/ \E g \in Loops : pc[g] \in {"fatal", "panic"}
    \/ reader = "panic"
    \/ range.pc = "panic"
    \/ rpcCall.pc = "panic"
    \/ firstRPC.pc = "fatal"
Live(g) == pc[g] \in {"select", "compare", "fetch", "apply"}

Call(op, arg) == [op |-> op, arg |-> arg]

\* -------------------------------------------------------------- BlockIngestor
\* The loop's locals are declared inside its body: each iteration starts with
\* fresh ones.
FreshLocals(g) ==
    /\ lastBestBlockHash' = [lastBestBlockHash EXCEPT ![g] = EmptyHash]
    /\ height' = [height EXCEPT ![g] = 0]
    /\ block' = [block EXCEPT ![g] = NilBlock]

\* The test at the top of the loop body: is the best block the cache's tail?
IsSynced(c, best) == best = Reverse(GetLatestHash(c))

\* The test that the fetched block extends the cache.
ExtendsAnyBlock(c, b) == b # NilBlock
Extends(c, b) == b # NilBlock /\ HashMatch(c, b.prevHash)

\* The height the loop passes to Reorg.
ReorgArgFar(h) == h - 3
ReorgArg(h) == h - 1

\* Where a goroutine is after Log.Fatal: the process has exited.  (The message
\* of the Fatal at the fetch says "will retry"; LogFatalRetries is that reading.)
LogFatalRetries == "select"
LogFatal == "fatal"

\* select: a stop request is waiting on stopIngestorChan; receive it and return.
IngestorStop(g) ==
    /\ ~Halted
    /\ UNCHANGED readVars
    /\ pc[g] = "select"
    /\ \E k \in Callers :
          /\ callerPc[k] = "stop_send"
          /\ callerPc' = [callerPc EXCEPT ![k] = "idle"]
    /\ pc' = [pc EXCEPT ![g] = "done"]
    /\ UNCHANGED <<cache, node, lastBestBlockHash, height, block, calls, slept,
                   ingestorRunning>>

\* select default, then getbestblockhash answered with a decodable hash.
IngestorBestHash(g) ==
    /\ ~Halted
    /\ UNCHANGED readVars
    /\ pc[g] = "select"
    /\ \A k \in Callers : callerPc[k] # "stop_send"
    /\ \E r \in BestHashReplies(node) :
          lastBestBlockHash' = [lastBestBlockHash EXCEPT ![g] = r.bytes]
    /\ pc' = [pc EXCEPT ![g] = "compare"]
    /\ calls' = [calls EXCEPT ![g] = <<>>]
    /\ slept' = [slept EXCEPT ![g] = 0]
    /\ UNCHANGED <<cache, node, height, block, lifeVars>>

\* select default, then getbestblockhash fails or is undecodable: Log.Fatal.
IngestorBestHashFatal(g) ==
    /\ ~Halted
    /\ UNCHANGED readVars
    /\ pc[g] = "select"
    /\ \A k \in Callers : callerPc[k] # "stop_send"
    /\ BestHashFailures(node) # {}
    /\ pc' = [pc EXCEPT ![g] = LogFatal]
    /\ calls' = [calls EXCEPT ![g] = <<>>]
    /\ slept' = [slept EXCEPT ![g] = 0]
    /\ UNCHANGED <<cache, node, lastBestBlockHash, height, block, lifeVars>>

\* height := c.GetNextHeight(); if the node's tip is the cache's tail: Sync,
\* sleep and continue; otherwise go on to fetch.
IngestorCompare(g) ==
    /\ ~Halted
    /\ UNCHANGED readVars
    /\ pc[g] = "compare"
    /\ IF IsSynced(cache, lastBestBlockHash[g])
       THEN /\ cache' = Sync(cache)
            /\ calls' = [calls EXCEPT ![g] = Append(@, Call("Sync", 0))]
            /\ slept' = [slept EXCEPT ![g] = @ + SyncedSleep]
            /\ pc' = [pc EXCEPT ![g] = "select"]
            /\ FreshLocals(g)
       ELSE /\ height' = [height EXCEPT ![g] = GetNextHeight(cache)]
            /\ pc' = [pc EXCEPT ![g] = "fetch"]
            /\ UNCHANGED <<cache, calls, slept, lastBestBlockHash, block>>
    /\ UNCHANGED <<node, lifeVars>>

\* getBlockFromRPC(height) returns a block or (nil, nil).
IngestorFetch(g) ==
    /\ ~Halted
    /\ UNCHANGED readVars
    /\ pc[g] = "fetch"
    /\ \E r \in FetchOutcomes(node, height[g]) :
          /\ ~r.panic /\ r.err = NoErr
          /\ block' = [block EXCEPT ![g] = r.block]
    /\ pc' = [pc EXCEPT ![g] = "apply"]
    /\ UNCHANGED <<cache, node, lastBestBlockHash, height, calls, slept, lifeVars>>

\* getBlockFromRPC(height) returns an error (Log.Fatal) or panics.
IngestorFetchFatal(g) ==
    /\ ~Halted
    /\ UNCHANGED readVars
    /\ pc[g] = "fetch"
    /\ \E r \in FetchOutcomes(node, height[g]) :
          /\ r.panic \/ r.err # NoErr
          /\ pc' = [pc EXCEPT ![g] = IF r.panic THEN "panic" ELSE LogFatal]
    /\ UNCHANGED <<cache, node, lastBestBlockHash, height, block, calls, slept,
                   lifeVars>>

\* The rest of the body: Add the block if it extends the cache; else at the
\* first height Sync, sleep and return; else Reorg and loop.  HashMatch and
\* Add are one step: the loop is the cache's only writer.
IngestorApply(g) ==
    /\ ~Halted
    /\ UNCHANGED readVars
    /\ pc[g] = "apply"
    /\ IF Extends(cache, block[g])
       THEN LET r == Add(cache, height[g], block[g]) IN
            /\ cache' = r.cache
            /\ calls' = [calls EXCEPT ![g] = Append(@, Call("Add", height[g]))]
            /\ pc' = [pc EXCEPT ![g] = IF r.err = NoErr THEN "select" ELSE LogFatal]
            /\ slept' = slept
       ELSE IF height[g] = GetFirstHeight(cache)
       THEN /\ cache' = Sync(cache)
            /\ calls' = [calls EXCEPT ![g] = Append(@, Call("Sync", 0))]
            /\ slept' = [slept EXCEPT ![g] = @ + BootstrapSleep]
            /\ pc' = [pc EXCEPT ![g] = "done"]
       ELSE /\ cache' = Reorg(cache, ReorgArg(height[g]))
            /\ calls' = [calls EXCEPT ![g] =
                             Append(@, Call("Reorg", ReorgArg(height[g])))]
            /\ pc' = [pc EXCEPT ![g] = "select"]
            /\ slept' = slept
    /\ FreshLocals(g)
    /\ UNCHANGED <<node, lifeVars>>

\* ------------------------------------------------- startIngestor / stopIngestor
\* Neither function takes a lock: the test of ingestorRunning, its assignment
\* and the go statement (or the channel send) are separate steps.

\* startIngestor: if !ingestorRunning
StartCheckAlways(k) ==
    /\ ~Halted
    /\ UNCHANGED readVars
    /\ callerPc[k] = "idle"
    /\ callerPc' = [callerPc EXCEPT ![k] = "start_set"]
    /\ UNCHANGED <<ingestVars, ingestorRunning>>
StartCheck(k) ==
    /\ ~Halted
    /\ UNCHANGED readVars
    /\ callerPc[k] = "idle"
    /\ callerPc' = [callerPc EXCEPT ![k] =
                        IF ~ingestorRunning THEN "start_set" ELSE "start_noop"]
    /\ UNCHANGED <<ingestVars, ingestorRunning>>

\* startIngestor: ingestorRunning = true
StartSet(k) ==
    /\ ~Halted
    /\ UNCHANGED readVars
    /\ callerPc[k] = "start_set"
    /\ ingestorRunning' = TRUE
    /\ callerPc' = [callerPc EXCEPT ![k] = "start_go"]
    /\ UNCHANGED ingestVars

\* startIngestor: go BlockIngestor(c, 0).  The model has MaxLoops goroutine
\* slots; a finished goroutine's slot is reused.
StartGo(k) ==
    /\ ~Halted
    /\ UNCHANGED readVars
    /\ callerPc[k] = "start_go"
    /\ \E g \in Loops :
          /\ pc[g] \in {"none", "done"}
          /\ pc' = [pc EXCEPT ![g] = "select"]
          /\ calls' = [calls EXCEPT ![g] = <<>>]
          /\ slept' = [slept EXCEPT ![g] = 0]
    /\ callerPc' = [callerPc EXCEPT ![k] = "idle"]
    /\ UNCHANGED <<cache, node, lastBestBlockHash, height, block, ingestorRunning>>

\* stopIngestor: if ingestorRunning
StopCheck(k) ==
    /\ ~Halted
    /\ UNCHANGED readVars
    /\ callerPc[k] = "idle"
    /\ callerPc' = [callerPc EXCEPT ![k] =
                        IF ingestorRunning THEN "stop_set" ELSE "stop_noop"]
    /\ UNCHANGED <<ingestVars, ingestorRunning>>

\* stopIngestor: ingestorRunning = false; the caller then blocks in the send
\* on the unbuffered stopIngestorChan until a loop receives (IngestorStop).
StopSet(k) ==
    /\ ~Halted
    /\ UNCHANGED readVars
    /\ callerPc[k] = "stop_set"
    /\ ingestorRunning' = FALSE
    /\ callerPc' = [callerPc EXCEPT ![k] = "stop_send"]
    /\ UNCHANGED ingestVars

\* startIngestor or stopIngestor returns without having done anything.
CallReturn(k) ==
    /\ ~Halted
    /\ UNCHANGED readVars
    /\ callerPc[k] \in {"start_noop", "stop_noop"}
    /\ callerPc' = [callerPc EXCEPT ![k] = "idle"]
    /\ UNCHANGED <<ingestVars, ingestorRunning>>

\* ------------------------------------------------------------------ GetBlock
\* GetBlock(cache, height) against the outcome f of the fetch it makes on a
\* miss: the cache after the call, what it returns (or that it panicked) and
\* the number of RPCs made.
GetBlockWriteBack(c, h, f) ==
    LET b == Get(c, h) IN
    IF b # NilBlock
    THEN [cache |-> c, block |-> b, err |-> NoErr, panic |-> FALSE, rpcs |-> 0]
    ELSE IF f.panic
    THEN [cache |-> c, block |-> NilBlock, err |-> NoErr, panic |-> TRUE,
          rpcs |-> f.rpcs]
    ELSE IF f.err # NoErr
    THEN [cache |-> c, block |-> NilBlock, err |-> f.err, panic |-> FALSE,
          rpcs |-> f.rpcs]
    ELSE IF f.block = NilBlock
    THEN [cache |-> c, block |-> NilBlock,
          err |-> "block requested is newer than latest block",
          panic |-> FALSE, rpcs |-> f.rpcs]
    ELSE [cache |-> Add(c, h, f.block).cache, block |-> f.block, err |-> NoErr,
          panic |-> FALSE, rpcs |-> f.rpcs]

GetBlockNilNil(c, h, f) ==
    LET b == Get(c, h) IN
    IF b # NilBlock
    THEN [cache |-> c, block |-> b, err |-> NoErr, panic |-> FALSE, rpcs |-> 0]
    ELSE IF f.panic
    THEN [cache |-> c, block |-> NilBlock, err |-> NoErr, panic |-> TRUE,
          rpcs |-> f.rpcs]
    ELSE [cache |-> c, block |-> f.block, err |-> f.err, panic |-> FALSE,
          rpcs |-> f.rpcs]

GetBlock(c, h, f) ==
    LET b == Get(c, h) IN
    IF b # NilBlock
    THEN [cache |-> c, block |-> b, err |-> NoErr, panic |-> FALSE, rpcs |-> 0]
    ELSE IF f.panic
    THEN [cache |-> c, block |-> NilBlock, err |-> NoErr, panic |-> TRUE,
          rpcs |-> f.rpcs]
    ELSE IF f.err # NoErr
    THEN [cache |-> c, block |-> NilBlock, err |-> f.err, panic |-> FALSE,
          rpcs |-> f.rpcs]
    ELSE IF f.block = NilBlock
    THEN [cache |-> c, block |-> NilBlock,
          err |-> "block requested is newer than latest block",
          panic |-> FALSE, rpcs |-> f.rpcs]
    ELSE [cache |-> c, block |-> f.block, err |-> NoErr, panic |-> FALSE,
          rpcs |-> f.rpcs]

\* The (block, error) pair of the fetch a GetBlock call made, if it made one.
NoFetch == [block |-> NilBlock, err |-> "no fetch"]
Fetched(f) == [block |-> f.block, err |-> f.err]

NoCall == [height |-> 0, block |-> NilBlock, err |-> NoErr, panic |-> FALSE,
           rpcs |-> 0, fetch |-> NoFetch]

\* A reader calls GetBlock(cache, h).
GetBlockCall(h) ==
    /\ ~Halted
    /\ reader = "idle"
    /\ \E f \in FetchOutcomes(node, h) :
          LET r == GetBlock(cache, h, f) IN
          /\ cache' = r.cache
          /\ getBlockRet' = [height |-> h, block |-> r.block, err |-> r.err,
                             panic |-> r.panic, rpcs |-> r.rpcs,
                             fetch |-> IF r.rpcs = 0 THEN NoFetch ELSE Fetched(f)]
          /\ reader' = IF r.panic THEN "panic" ELSE "returned"
    /\ UNCHANGED <<node, pc, lastBestBlockHash, height, block, calls, slept,
                   lifeVars, rpcVars, rangeVars, filt>>

\* The reader takes the result and is ready for another call.
GetBlockDone ==
    /\ ~Halted
    /\ reader = "returned"
    /\ reader' = "idle"
    /\ getBlockRet' = NoCall
    /\ UNCHANGED <<ingestVars, lifeVars, rpcVars, rangeVars, filt>>

\* --------------------------------------------------------- FilterSpammyBlock
ClearOutput(o) == [o EXCEPT !.ciphertext = Cleared, !.epk = Cleared]
ClearAction(a) ==
    [a EXCEPT !.ciphertext = Cleared, !.ephemeralKey = Cleared,
              !.nullifier = Cleared]

\* The test on one transaction of the copy.
AtOrOverThreshold(tx, t) == Len(tx.outputs) + Len(tx.actions) >= t
OverThreshold(tx, t) == Len(tx.outputs) + Len(tx.actions) > t

FilterTx(tx, t) ==
    IF OverThreshold(tx, t)
    THEN [tx EXCEPT
             !.outputs = [i \in 1..Len(tx.outputs) |-> ClearOutput(tx.outputs[i])],
             !.actions = [i \in 1..Len(tx.actions) |-> ClearAction(tx.actions[i])]]
    ELSE tx

FilterSpammyBlock(b, t) ==
    IF t = 0 THEN b
    ELSE [b EXCEPT !.vtx = [i \in 1..Len(b.vtx) |-> FilterTx(b.vtx[i], t)]]

\* The block the caller handed in, as it is when the filter has returned: the
\* fields are cleared in newBlock, the proto.Clone of the input, and the input
\* keeps every field.
FilterInputInPlace(b, t) == FilterSpammyBlock(b, t)
FilterInput(b, t) == b

\* The cache when the block object it handed out for height h has become b:
\* a block read from the cache is taken to be the very object the cache holds.
Aliased(c, h, b) ==
    IF Get(c, h) # NilBlock
    THEN [c EXCEPT !.blocks[h - c.firstHeight + 1] = b]
    ELSE c

NoFilter == [pc |-> "none", in |-> NilBlock, t |-> 0, out |-> NilBlock]

\* A caller applies FilterSpammyBlock to its block and threshold.
FilterCall ==
    /\ ~Halted
    /\ filt.pc = "call"
    /\ filt' = [filt EXCEPT !.pc = "done",
                            !.out = FilterSpammyBlock(filt.in, filt.t)]
    /\ UNCHANGED <<ingestVars, lifeVars, rpcVars, getVars, rangeVars>>

\* -------------------------------------------------------------- GetBlockRange
RangeLow(start, end) == IF start > end THEN end ELSE start
RangeHigh(start, end) == IF start > end THEN start ELSE end

\* The height j asked for in the iteration with loop variable i.
RangeHeightAscending(start, end, i) == i
RangeHeight(start, end, i) ==
    IF start > end
    THEN RangeHigh(start, end) - (i - RangeLow(start, end))
    ELSE i

\* hits counts the blocks of the call that cache.Get served.
NoRange == [pc |-> "none", start |-> 0, end |-> 0, t |-> 0, i |-> 0, hits |-> 0]
RangeStart(start, end, t) ==
    [pc |-> "loop", start |-> start, end |-> end, t |-> t,
     i |-> RangeLow(start, end), hits |-> 0]

\* One iteration of the loop: GetBlock(cache, j), then the error on errOut
\* and return, or the filtered block on blockOut.
RangeStep ==
    /\ ~Halted
    /\ range.pc = "loop"
    /\ range.i <= RangeHigh(range.start, range.end)
    /\ \E f \in FetchOutcomes(node, RangeHeight(range.start, range.end, range.i)) :
          LET r == GetBlock(cache, RangeHeight(range.start, range.end, range.i), f)
          IN
          /\ IF r.panic
             THEN /\ range' = [range EXCEPT !.pc = "panic"]
                  /\ cache' = r.cache
                  /\ UNCHANGED <<blockOut, errOut>>
             ELSE IF r.err # NoErr
             THEN /\ errOut' = Append(errOut, r.err)
                  /\ range' = [range EXCEPT !.pc = "done"]
                  /\ cache' = r.cache
                  /\ UNCHANGED blockOut
             ELSE /\ blockOut' = Append(blockOut, FilterSpammyBlock(r.block, range.t))
                  /\ cache' = Aliased(r.cache,
                                      RangeHeight(range.start, range.end, range.i),
                                      FilterInput(r.block, range.t))
                  /\ range' = [range EXCEPT
                                  !.i = @ + 1,
                                  !.hits = IF r.rpcs = 0 THEN @ + 1 ELSE @]
                  /\ UNCHANGED errOut
    /\ UNCHANGED <<node, pc, lastBestBlockHash, height, block, calls, slept,
                   lifeVars, rpcVars, getVars, filt>>

\* A client starts a GetBlockRange call, on channels of its own, when none is
\* under way.
RangeCall(start, end, t) ==
    /\ ~Halted
    /\ range.pc \in {"none", "done"}
    /\ range' = RangeStart(start, end, t)
    /\ blockOut' = <<>>
    /\ errOut' = <<>>
    /\ UNCHANGED <<ingestVars, lifeVars, rpcVars, getVars, filt>>

\* The loop is over: the nil sentinel on errOut.
RangeFinish ==
    /\ ~Halted
    /\ range.pc = "loop"
    /\ range.i > RangeHigh(range.start, range.end)
    /\ errOut' = Append(errOut, NoErr)
    /\ range' = [range EXCEPT !.pc = "done"]
    /\ UNCHANGED <<ingestVars, lifeVars, rpcVars, getVars, blockOut, filt>>

\* ------------------------------------------------------ getBlockFromRPC call
NoRpcCall ==
    [pc |-> "none", height |-> 0, r0 |-> RpcErr(NotYetMined),
     r1 |-> RpcErr(NotYetMined), ret |-> FetchResult(NilBlock, NoErr, 0)]
RpcCallStart(h, r0, r1) ==
    [pc |-> "call", height |-> h, r0 |-> r0, r1 |-> r1,
     ret |-> FetchResult(NilBlock, NoErr, 0)]

\* getBlockFromRPC(height) runs against the two replies and returns or panics.
RpcCallDone ==
    /\ ~Halted
    /\ rpcCall.pc = "call"
    /\ LET r == getBlockFromRPC(rpcCall.height, rpcCall.r0, rpcCall.r1) IN
          rpcCall' = [rpcCall EXCEPT !.pc = IF r.panic THEN "panic" ELSE "done",
                                     !.ret = r]
    /\ UNCHANGED <<ingestVars, lifeVars, getVars, rangeVars, filt, firstRPC>>

\* ------------------------------------------------------------------ FirstRPC
\* retryCount > 10 is fatal; the sleep is (10 + retryCount*5) seconds.
MaxRetries == 10
BackoffBase == 10
BackoffStep == 5
BackoffFlat(retryCount) == BackoffBase
Backoff(retryCount) == BackoffBase + retryCount * BackoffStep

\* The call and the node it talks to: the node fails the next `fails`
\* getblockchaininfo requests and then answers with `last`, a reply that
\* parses ("ok") or one that does not ("badjson").
NoFirstRPC ==
    [pc |-> "none", fails |-> 0, last |-> "ok", retryCount |-> 0, rpcs |-> 0,
     sleeps |-> <<>>]
FirstRPCStart(fails, last) ==
    [pc |-> "call", fails |-> fails, last |-> last, retryCount |-> 0,
     rpcs |-> 0, sleeps |-> <<>>]

\* One iteration whose RawRequest fails: count it, give up after the eleventh,
\* otherwise sleep and try again.
FirstRPCFail ==
    /\ firstRPC.pc = "call"
    /\ firstRPC.fails > 0
    /\ LET rc == firstRPC.retryCount + 1 IN
          firstRPC' =
              [firstRPC EXCEPT
                  !.fails = @ - 1,
                  !.rpcs = @ + 1,
                  !.retryCount = rc,
                  !.pc = IF rc > MaxRetries THEN "fatal" ELSE "call",
                  !.sleeps = IF rc > MaxRetries THEN @ ELSE Append(@, Backoff(rc))]
    /\ UNCHANGED <<ingestVars, lifeVars, getVars, rangeVars, filt, rpcCall>>

\* One iteration whose RawRequest succeeds: the reply parses and FirstRPC
\* returns, or it does not and Log.Fatalf ends the process.
FirstRPCReply ==
    /\ firstRPC.pc = "call"
    /\ firstRPC.fails = 0
    /\ firstRPC' =
          [firstRPC EXCEPT
              !.rpcs = @ + 1,
              !.pc = IF firstRPC.last = "ok" THEN "returned" ELSE "fatal"]
    /\ UNCHANGED <<ingestVars, lifeVars, getVars, rangeVars, filt, rpcCall>>

\* ------------------------------------------------------- chains and caches
\* The node's transaction as getBlockFromRPC returns it.
FetchedTx == [NodeTx EXCEPT !.txid = Reverse(ListedTxid)]

\* The linked chains of n blocks from FirstHeight up, over the transaction
\* lists vs; the first block's previous hash is the empty hash, which is what
\* HashMatch accepts on an empty cache.
RECURSIVE Chains(_, _, _)
Chains(n, hs, vs) ==
    IF n = 0 THEN {<<>>}
    ELSE {Append(c, CompactBlock(FirstHeight + n - 1, hash,
                                 IF n = 1 THEN EmptyHash ELSE c[n - 1].hash, vtx)) :
             c \in Chains(n - 1, hs, vs), hash \in hs, vtx \in vs}
ChainsUpTo(n, hs, vs) == UNION {Chains(k, hs, vs) : k \in 0..n}

\* A cache holding the blocks bs.
CacheOf(bs, synced) ==
    [firstHeight |-> FirstHeight, nextHeight |-> FirstHeight + Len(bs),
     blocks |-> bs, synced |-> synced]

\* The caches the ingestor can build: every linked chain it can have added.
IngestedCaches ==
    {CacheOf(bs, sy) :
        bs \in ChainsUpTo(MaxBlocks, Hashes, {<<>>, <<FetchedTx>>}), sy \in BOOLEAN}

\* One chain of n blocks, each with one transaction.
HashSeq == <<<<0, 1>>, <<1, 0>>, <<1, 1>>>>
HashAt(i) == HashSeq[((i - 1) % Len(HashSeq)) + 1]
CanonChain(n) ==
    [i \in 1..n |->
        CompactBlock(FirstHeight + i - 1, HashAt(i),
                     IF i = 1 THEN EmptyHash ELSE HashAt(i - 1), <<FetchedTx>>)]

\* --------------------------------------------------------- specifications
IdleLoops ==
    /\ lastBestBlockHash = [g \in Loops |-> EmptyHash]
    /\ height = [g \in Loops |-> 0]
    /\ block = [g \in Loops |-> NilBlock]
    /\ calls = [g \in Loops |-> <<>>]
    /\ slept = [g \in Loops |-> 0]
IdleLife ==
    /\ ingestorRunning = FALSE
    /\ callerPc = [k \in Callers |-> "idle"]
IdleRpc ==
    /\ rpcCall = NoRpcCall
    /\ firstRPC = NoFirstRPC
IdleReaders ==
    /\ reader = "idle"
    /\ getBlockRet = NoCall
    /\ range = NoRange
    /\ blockOut = <<>>
    /\ errOut = <<>>
    /\ filt = NoFilter

\* One BlockIngestor(c, 0) on a new cache, against an arbitrary node.
Init ==
    /\ cache = NewBlockCache(FirstHeight)
    /\ node = AnyNode
    /\ pc = [g \in Loops |-> IF g = 1 THEN "select" ELSE "none"]
    /\ IdleLoops /\ IdleLife /\ IdleRpc /\ IdleReaders

IngestorStep(g) ==
    \/ IngestorBestHash(g)
    \/ IngestorBestHashFatal(g)
    \/ IngestorCompare(g)
    \/ IngestorFetch(g)
    \/ IngestorFetchFatal(g)
    \/ IngestorApply(g)

Next ==
    \/ \E g \in Loops : IngestorStep(g)

Spec == Init /\ [][Next]_vars

\* GetBlock calls on any cache the ingestor can have built, against an
\* arbitrary node.
InitGet ==
    /\ cache \in IngestedCaches
    /\ node = AnyNode
    /\ pc = [g \in Loops |-> "none"]
    /\ IdleLoops /\ IdleLife /\ IdleRpc /\ IdleReaders

NextGet ==
    \/ \E h \in AskHeights : GetBlockCall(h)
    \/ GetBlockDone

SpecGet == InitGet /\ [][NextGet]_vars

\* One GetBlockRange(cache, blockOut, errOut, start, end, t) call, the cache
\* holding a prefix of the chain of a node whose replies may fail.
InitRange ==
    /\ \E n \in 0..MaxBlocks, sy \in BOOLEAN :
          cache = CacheOf(CanonChain(n), sy)
    /\ node = FaultyNode(CanonChain(MaxBlocks))
    /\ pc = [g \in Loops |-> "none"]
    /\ IdleLoops /\ IdleLife /\ IdleRpc
    /\ reader = "idle"
    /\ getBlockRet = NoCall
    /\ \E start \in AskHeights, end \in AskHeights, t \in 0..MaxThreshold :
          range = RangeStart(start, end, t)
    /\ blockOut = <<>>
    /\ errOut = <<>>
    /\ filt = NoFilter

NextRange == RangeStep \/ RangeFinish

SpecRange == InitRange /\ [][NextRange]_vars

\* GetBlockRange calls, one after another, while one BlockIngestor(c, 0)
\* follows the chain of a node that answers every request.
InitServe ==
    /\ cache = NewBlockCache(FirstHeight)
    /\ node = FixedNode(CanonChain(MaxBlocks))
    /\ pc = [g \in Loops |-> IF g = 1 THEN "select" ELSE "none"]
    /\ IdleLoops /\ IdleLife /\ IdleRpc /\ IdleReaders

NextServe ==
    \/ IngestorBestHash(1)
    \/ IngestorCompare(1)
    \/ IngestorFetch(1)
    \/ IngestorApply(1)
    \/ \E start \in AskHeights, end \in AskHeights, t \in 0..MaxThreshold :
          RangeCall(start, end, t)
    \/ RangeStep
    \/ RangeFinish

SpecServe == InitServe /\ [][NextServe]_vars

\* One getBlockFromRPC(height) call against any two replies of the node.
InitFetch ==
    /\ cache = NewBlockCache(FirstHeight)
    /\ node = AnyNode
    /\ pc = [g \in Loops |-> "none"]
    /\ IdleLoops /\ IdleLife /\ IdleReaders
    /\ firstRPC = NoFirstRPC
    /\ \E h \in AskHeights :
       \E r0 \in RawBlockReplies(AnyNode, h), r1 \in VerboseReplies(AnyNode, h) :
          rpcCall = RpcCallStart(h, r0, r1)

NextFetch == RpcCallDone

SpecFetch == InitFetch /\ [][NextFetch]_vars

\* One FirstRPC() call against a node that fails up to MaxFailures requests
\* in a row.
InitFirstRPC ==
    /\ cache = NewBlockCache(FirstHeight)
    /\ node = AnyNode
    /\ pc = [g \in Loops |-> "none"]
    /\ IdleLoops /\ IdleLife /\ IdleReaders
    /\ rpcCall = NoRpcCall
    /\ \E fails \in 0..MaxFailures, last \in {"ok", "badjson"} :
          firstRPC = FirstRPCStart(fails, last)

NextFirstRPC == FirstRPCFail \/ FirstRPCReply

SpecFirstRPC == InitFirstRPC /\ [][NextFirstRPC]_vars

\* FirstRPC is one sequential function: every RawRequest and every Sleep of
\* it returns, so its next step is eventually taken.
FairSpecFirstRPC == SpecFirstRPC /\ WF_vars(NextFirstRPC)

\* One FilterSpammyBlock(block, t) call on any block of up to MaxTx
\* transactions with up to MaxOutputs outputs and MaxActions actions each.
FilterOutputs == UNION {[1..k -> {Output(Present, Present)}] : k \in 0..MaxOutputs}
FilterActions ==
    UNION {[1..k -> {Action(Present, Present, Present)}] : k \in 0..MaxActions}
FilterTxs ==
    {Tx(id, outs, acts) :
        id \in {<<0, 1>>, <<1, 0>>}, outs \in FilterOutputs, acts \in FilterActions}
FilterBlocks ==
    {CompactBlock(FirstHeight, <<0, 1>>, EmptyHash, vtx) :
        vtx \in SeqUpTo(FilterTxs, MaxTx)}

InitFilter ==
    /\ cache = NewBlockCache(FirstHeight)
    /\ node = AnyNode
    /\ pc = [g \in Loops |-> "none"]
    /\ IdleLoops /\ IdleLife /\ IdleRpc
    /\ reader = "idle"
    /\ getBlockRet = NoCall
    /\ range = NoRange
    /\ blockOut = <<>>
    /\ errOut = <<>>
    /\ \E b \in FilterBlocks, t \in 0..MaxThreshold :
          filt = [pc |-> "call", in |-> b, t |-> t, out |-> NilBlock]

NextFilter == FilterCall

SpecFilter == InitFilter /\ [][NextFilter]_vars

\* One BlockIngestor(c, 0) whose cache holds a linked chain, against a node
\* whose chain is fixed and whose RPCs all succeed.  A hash identifies its
\* block: equal hashes in the cache and on the chain mean equal blocks.
HashesIdentify(bs, chain) ==
    LET all == {bs[i] : i \in 1..Len(bs)} \cup {chain[i] : i \in 1..Len(chain)}
    IN \A x \in all, y \in all : x.hash = y.hash => x = y

InitReorg ==
    /\ \E bs \in ChainsUpTo(MaxBlocks, ForkHashes, {<<>>}),
          chain \in ChainsUpTo(MaxBlocks, ForkHashes, {<<>>}) :
          /\ Len(chain) >= 1
          /\ HashesIdentify(bs, chain)
          /\ cache = CacheOf(bs, FALSE)
          /\ node = FixedNode(chain)
    /\ pc = [g \in Loops |-> IF g = 1 THEN "select" ELSE "none"]
    /\ IdleLoops /\ IdleLife /\ IdleRpc /\ IdleReaders

NextReorg ==
    \E g \in Loops :
        \/ IngestorBestHash(g)
        \/ IngestorCompare(g)
        \/ IngestorFetch(g)
        \/ IngestorApply(g)

\* The goroutine is scheduled as long as it can take a step.
FairSpecReorg == InitReorg /\ [][NextReorg]_vars /\ WF_vars(NextReorg)

\* Goroutines calling startIngestor and stopIngestor at will, on a new cache,
\* against a node whose chain is below FirstHeight or holds one block.
InitLife ==
    /\ cache = NewBlockCache(FirstHeight)
    /\ \E n \in 0..1 : node = FixedNode(CanonChain(n))
    /\ pc = [g \in Loops |-> "none"]
    /\ IdleLoops /\ IdleLife /\ IdleRpc /\ IdleReaders

LoopStep(g) ==
    \/ IngestorStop(g)
    \/ IngestorBestHash(g)
    \/ IngestorCompare(g)
    \/ IngestorFetch(g)
    \/ IngestorApply(g)

\* The steps of a call once it is made (the calls themselves are up to the
\* callers).
CallerStep(k) ==
    \/ StartSet(k)
    \/ StartGo(k)
    \/ StopSet(k)
    \/ CallReturn(k)

NextLife ==
    \/ \E k \in Callers : StartCheck(k) \/ StopCheck(k) \/ CallerStep(k)
    \/ \E g \in Loops : LoopStep(g)

SpecLife == InitLife /\ [][NextLife]_vars

\* Every goroutine that can take a step is eventually scheduled; nobody is
\* obliged to call startIngestor or stopIngestor.
FairSpecLife ==
    /\ SpecLife
    /\ \A g \in Loops : WF_vars(LoopStep(g))
    /\ \A k \in Callers : WF_vars(CallerStep(k))

\* One goroutine calling startIngestor and stopIngestor, one call after the
\* other, against a node whose chain holds up to MaxBlocks blocks.
InitOneCaller ==
    /\ cache = NewBlockCache(FirstHeight)
    /\ \E n \in 0..MaxBlocks : node = FixedNode(CanonChain(n))
    /\ pc = [g \in Loops |-> "none"]
    /\ IdleLoops /\ IdleLife /\ IdleRpc /\ IdleReaders

NextOneCaller ==
    \/ StartCheck(1)
    \/ StopCheck(1)
    \/ CallerStep(1)
    \/ \E g \in Loops : LoopStep(g)

SpecOneCaller == InitOneCaller /\ [][NextOneCaller]_vars

\* ------------------------------------------------------------------ claims
\* Every cache the ingestor builds is one of IngestedCaches.
CacheIsIngested == cache \in IngestedCaches

\* C1: in every reachable cache state, for every height h with
\* firstHeight < h < nextHeight, the block at h has a previous hash equal to
\* the hash of the block at h - 1.
C1_ChainLinkage ==
    \A h \in Heights :
        GetFirstHeight(cache) < h /\ h < GetNextHeight(cache)
            => Get(cache, h).prevHash = Get(cache, h - 1).hash

\* A full cache, whose last iteration went through the Reorg branch.
C1_Witness ==
    /\ GetNextHeight(cache) = MaxHeight + 1
    /\ \E g \in Loops : Len(calls[g]) = 1 /\ calls[g][1].op = "Reorg"

\* C2: an iteration whose fetch returned (nil, nil) calls neither Add nor
\* Reorg, leaves the cache unchanged, waits, and goes back to the top of the
\* loop instead of returning.
C2_NotYetAvailableRetries ==
    [][\A g \in Loops :
          pc[g] = "apply" /\ block[g] = NilBlock /\ pc'[g] # "apply"
              => /\ cache' = cache
                 /\ pc'[g] = "select"
                 /\ \A i \in 1..Len(calls'[g]) : calls'[g][i].op \notin {"Add", "Reorg"}
                 /\ slept'[g] > 0]_vars

\* The cache's first block is on the node's chain and a higher one is not.
Diverged ==
    /\ node.fixed
    /\ Len(cache.blocks) >= 2
    /\ Len(node.chain) >= 1
    /\ cache.blocks[1] = node.chain[1]
    /\ \E i \in 2..Len(cache.blocks) :
          i > Len(node.chain) \/ cache.blocks[i] # node.chain[i]

\* The loop has found the node's best block to be the cache's tail.
AtTip ==
    /\ GetLatestHash(cache) = TipHash(node)
    /\ Linked(cache.blocks)
    /\ \E g \in Loops : pc[g] = "select" /\ calls[g] = <<Call("Sync", 0)>>

\* C3: from a linked cache whose top blocks are no longer on the node's fixed
\* chain, with every RPC succeeding, the ingestor eventually reaches the
\* at-tip state in which the cache's latest hash is the node's best hash.
C3_ReorgRecovery == Diverged ~> AtTip

\* C4: at most one BlockIngestor loop is live at any time.
C4_AtMostOneLoop == Cardinality({g \in Loops : Live(g)}) <= 1

\* C5: every stopIngestor call that found the ingestor flagged as running
\* eventually returns (unless the process has halted).
C5_StopReturns ==
    \A k \in Callers :
        (callerPc[k] = "stop_send") ~> (callerPc[k] = "idle" \/ Halted)

\* C6: a GetBlock call, whatever the height and the fetch outcome, leaves
\* the cache (first and next height, stored blocks, synced) as it was.
C6_GetBlockReadOnly ==
    [][reader = "idle" /\ reader' # "idle" => cache' = cache]_vars

\* GetBlock returned a block it fetched for the height the cache would take
\* next.
C6_Witness ==
    /\ reader = "returned"
    /\ getBlockRet.block # NilBlock
    /\ getBlockRet.rpcs > 0
    /\ getBlockRet.height = GetNextHeight(cache)

NewerThanTip == "block requested is newer than latest block"

\* C7: a GetBlock call that returns has exactly one of block and error
\* non-nil; a height in the cache window gives the cached block without any
\* RPC; any other gives the fetched block, or the fetch error, or, when the
\* fetch reports not-yet-available, the newer-than-tip error.
C7_GetBlockResult ==
    reader = "returned" =>
        LET r == getBlockRet
            cached == Get(cache, r.height)
        IN /\ (r.block # NilBlock) # (r.err # NoErr)
           /\ cached # NilBlock =>
                  r.block = cached /\ r.rpcs = 0 /\ r.fetch = NoFetch
           /\ cached = NilBlock =>
                  /\ r.rpcs > 0
                  /\ r.fetch.err # NoErr => r.block = NilBlock /\ r.err = r.fetch.err
                  /\ r.fetch.err = NoErr /\ r.fetch.block = NilBlock =>
                         r.block = NilBlock /\ r.err = NewerThanTip
                  /\ r.fetch.block # NilBlock =>
                         r.block = r.fetch.block /\ r.err = NoErr

\* GetBlock returned the newer-than-tip error after a (nil, nil) fetch.
C7_Witness ==
    /\ reader = "returned"
    /\ getBlockRet.fetch = [block |-> NilBlock, err |-> NoErr]
    /\ getBlockRet.err = NewerThanTip

\* The heights of the inclusive range, from start towards end.
ExpectedHeights(start, end) ==
    [k \in 1..((IF start > end THEN start - end ELSE end - start) + 1) |->
        IF start > end THEN start - k + 1 ELSE start + k - 1]
HeightsOf(bs) == [k \in 1..Len(bs) |-> bs[k].height]

\* C8: the blocks emitted are those of the heights of the inclusive range,
\* one each, ascending if start <= end and descending otherwise: always a
\* prefix of that sequence, and all of it once every GetBlock has succeeded.
C8_RangeOrder ==
    range.pc \in {"loop", "done"} =>
        LET want == ExpectedHeights(range.start, range.end) IN
        /\ Len(blockOut) <= Len(want)
        /\ HeightsOf(blockOut) = SubSeq(want, 1, Len(blockOut))
        /\ range.pc = "done" /\ errOut = <<NoErr>> => Len(blockOut) = Len(want)

\* A descending range of three or more heights, completed.
C8_Witness ==
    /\ range.pc = "done"
    /\ errOut = <<NoErr>>
    /\ range.start > range.end + 1
    /\ Len(blockOut) >= 3

\* C9: every GetBlockRange call sends exactly one value on errOut, as the
\* last thing it does: nothing while it runs, and once it is over either nil
\* after the whole range or the first error after the blocks before it.
C9_OneErrorLast ==
    /\ range.pc = "loop" => errOut = <<>>
    /\ range.pc \in {"done", "panic"} =>
          /\ Len(errOut) = 1
          /\ errOut[1] = NoErr =>
                 Len(blockOut) = Len(ExpectedHeights(range.start, range.end))
          /\ errOut[1] # NoErr =>
                 Len(blockOut) < Len(ExpectedHeights(range.start, range.end))

\* C10: for a threshold t > 0 the filter keeps the block's height and hashes
\* and each transaction's id and numbers of outputs and actions; a
\* transaction with more than t outputs+actions has ciphertext and key
\* cleared on every output and ciphertext, key and nullifier cleared on
\* every action; any other transaction is unchanged.
C10_FilterPerTx ==
    filt.pc = "done" /\ filt.t > 0 =>
        LET in == filt.in
            out == filt.out
        IN /\ out.height = in.height
           /\ out.hash = in.hash
           /\ out.prevHash = in.prevHash
           /\ Len(out.vtx) = Len(in.vtx)
           /\ \A i \in 1..Len(in.vtx) :
                 LET a == in.vtx[i]
                     b == out.vtx[i]
                 IN /\ b.txid = a.txid
                    /\ Len(b.outputs) = Len(a.outputs)
                    /\ Len(b.actions) = Len(a.actions)
                    /\ IF Len(a.outputs) + Len(a.actions) > filt.t
                       THEN /\ \A j \in 1..Len(b.outputs) :
                                  b.outputs[j] = Output(Cleared, Cleared)
                            /\ \A j \in 1..Len(b.actions) :
                                  b.actions[j] = Action(Cleared, Cleared, Cleared)
                       ELSE b = a

\* A block with one transaction exactly at the threshold and one just over.
C10_Witness ==
    /\ filt.pc = "done"
    /\ filt.t > 0
    /\ Len(filt.in.vtx) = 2
    /\ Len(filt.in.vtx[1].outputs) + Len(filt.in.vtx[1].actions) = filt.t
    /\ Len(filt.in.vtx[2].outputs) + Len(filt.in.vtx[2].actions) = filt.t + 1
    /\ filt.out.vtx[1] = filt.in.vtx[1]
    /\ filt.out.vtx[2] # filt.in.vtx[2]

\* C11: filtering never alters a block the cache holds. Whatever
\* GetBlockRange calls with whatever thresholds have run while the ingestor
\* was adding blocks, every cached block is the block that was added, with all
\* its ciphertext, key and nullifier fields, and every block a call with
\* threshold 0 emits is that unredacted block.
Unredacted(b) ==
    /\ b.height \in FirstHeight..(FirstHeight + MaxBlocks - 1)
    /\ b = CanonChain(MaxBlocks)[b.height - FirstHeight + 1]
C11_FilterLeavesCache ==
    /\ \A i \in 1..Len(cache.blocks) :
          /\ cache.blocks[i].height = cache.firstHeight + i - 1
          /\ Unredacted(cache.blocks[i])
    /\ range.t = 0 => \A k \in 1..Len(blockOut) : Unredacted(blockOut[k])
\* A call of threshold > 0 was served by the cache and emitted redacted
\* blocks, and the cache still holds those heights.
C11_Witness ==
    /\ range.pc = "done"
    /\ range.t > 0
    /\ range.hits = Len(blockOut)
    /\ Len(blockOut) = MaxBlocks
    /\ \A k \in 1..Len(blockOut) :
          /\ ~Unredacted(blockOut[k])
          /\ Get(cache, blockOut[k].height) # NilBlock

\* C12: getBlockFromRPC returns (nil, nil) exactly when the first getblock
\* request fails with code -8; every other failure of the first request or
\* of its reply (another RPC error, JSON, hex or parse error, trailing bytes,
\* another height), and an RPC error, undecodable JSON or an undecodable txid
\* on the verbose request, returns a nil block with an error; a block comes
\* only with a nil error and has the height asked for.
RawReplyPasses(c) ==
    /\ c.r0.kind = "ok"
    /\ c.r0.rest = 0
    /\ c.r0.block.height = c.height
ListedFailure(c) ==
    \/ c.r0.kind = "rpcerr" /\ c.r0.code # NotYetMined
    \/ c.r0.kind \in {"badjson", "badhex", "badparse"}
    \/ c.r0.kind = "ok" /\ ~RawReplyPasses(c)
    \/ RawReplyPasses(c) /\ c.r1.kind \in {"rpcerr", "badjson"}
    \/ /\ RawReplyPasses(c)
       /\ c.r1.kind = "ok"
       /\ Len(c.r1.tx) = Len(c.r0.block.vtx)
       /\ \E i \in 1..Len(c.r1.tx) : ~c.r1.tx[i].ok
C12_FetchResult ==
    rpcCall.pc = "done" =>
        /\ (rpcCall.ret.block = NilBlock /\ rpcCall.ret.err = NoErr)
              <=> (rpcCall.r0.kind = "rpcerr" /\ rpcCall.r0.code = NotYetMined)
        /\ ListedFailure(rpcCall) =>
              rpcCall.ret.block = NilBlock /\ rpcCall.ret.err # NoErr
        /\ rpcCall.ret.block # NilBlock =>
              rpcCall.ret.err = NoErr /\ rpcCall.ret.block.height = rpcCall.height
\* Code -8 on the verbose request is an error like any other, not (nil, nil).
C12_Witness ==
    /\ rpcCall.pc = "done"
    /\ RawReplyPasses(rpcCall)
    /\ rpcCall.r1 = RpcErr(NotYetMined)
    /\ rpcCall.ret.block = NilBlock
    /\ rpcCall.ret.err = "error requesting verbose block"

\* C13: when the verbose reply lists a number of txids different from the
\* number of parsed transactions, fewer or more, the fetch returns a nil block
\* and an error: it neither crashes nor returns a block.
TxidCountDiffers(c) ==
    /\ RawReplyPasses(c)
    /\ c.r1.kind = "ok"
    /\ Len(c.r1.tx) # Len(c.r0.block.vtx)
C13_TxidMismatchIsError ==
    rpcCall.pc \in {"done", "panic"} /\ TxidCountDiffers(rpcCall) =>
        /\ rpcCall.pc = "done"
        /\ rpcCall.ret.block = NilBlock
        /\ rpcCall.ret.err # NoErr

\* C14 as stated: FirstRPC halts fatally exactly when 11 consecutive calls
\* have failed (and then made no 12th call), and after k <= 10 failures
\* followed by a call that succeeds it returns normally, having slept exactly
\* k times, the i-th sleep for 10 + 5*i seconds.
FirstRPCOver == firstRPC.pc \in {"returned", "fatal"}
LinearBackoff(sleeps) ==
    /\ \A i \in 1..Len(sleeps) : sleeps[i] = 10 + 5 * i
    /\ \A i \in 1..Len(sleeps), j \in 1..Len(sleeps) :
          i < j => sleeps[i] < sleeps[j]
C14_FatalOnlyAfterElevenFailures ==
    /\ firstRPC.pc = "fatal" <=>
          (firstRPC.retryCount = 11 /\ firstRPC.rpcs = 11)
    /\ FirstRPCOver /\ firstRPC.retryCount <= 10 =>
          /\ firstRPC.pc = "returned"
          /\ Len(firstRPC.sleeps) = firstRPC.retryCount
          /\ LinearBackoff(firstRPC.sleeps)

\* C14, amended: FirstRPC always terminates. It halts fatally exactly when 11
\* consecutive calls have failed (no 12th call is made) or when a call
\* succeeds with a reply that does not parse; after k <= 10 failures followed
\* by a call that succeeds with a reply that parses it returns normally; in
\* either case it has slept once per failure but the eleventh, the i-th sleep
\* for 10 + 5*i seconds, strictly increasing.
FirstRPCSafe ==
    /\ firstRPC.rpcs <= 11
    /\ firstRPC.pc = "fatal" <=>
          \/ firstRPC.retryCount = 11 /\ firstRPC.rpcs = 11
          \/ /\ firstRPC.retryCount <= 10
             /\ firstRPC.rpcs = firstRPC.retryCount + 1
             /\ firstRPC.last = "badjson"
    /\ firstRPC.pc = "returned" <=>
          /\ firstRPC.retryCount <= 10
          /\ firstRPC.rpcs = firstRPC.retryCount + 1
          /\ firstRPC.last = "ok"
    /\ firstRPC.pc \in {"call", "returned", "fatal"} =>
          /\ Len(firstRPC.sleeps) =
                (IF firstRPC.retryCount = 11 THEN 10 ELSE firstRPC.retryCount)
          /\ LinearBackoff(firstRPC.sleeps)
C14_FirstRPCTerminates == []FirstRPCSafe /\ <>FirstRPCOver
\* Ten failures, ten sleeps of 15 to 60 seconds, and a normal return.
C14_Witness ==
    /\ firstRPC.pc = "returned"
    /\ firstRPC.retryCount = 10
    /\ Len(firstRPC.sleeps) = 10
    /\ firstRPC.sleeps[1] = 15
    /\ firstRPC.sleeps[10] = 60

\* C15: an iteration in which getbestblockhash fails or is undecodable, the
\* fetch of the next block returns an error (or crashes), or Add rejects the
\* block, ends with the ingestor halted and the cache as it was; the loop goes
\* on past the fetch only with an error-free result, and once halted nothing
\* runs any more: no retry, no other height, no Add, Reorg or Sync.
AddRejects(g) ==
    /\ pc[g] = "apply"
    /\ Extends(cache, block[g])
    /\ Add(cache, height[g], block[g]).err # NoErr
BootstrapCase(g) ==
    /\ pc[g] = "apply"
    /\ height[g] = GetFirstHeight(cache)
    /\ GetNextHeight(cache) = GetFirstHeight(cache)
    /\ ~Extends(cache, block[g])
C16_HeightsAndBootstrap ==
    [][/\ GetFirstHeight(cache) = FirstHeight
       /\ GetFirstHeight(cache') = FirstHeight
       /\ GetFirstHeight(cache) <= GetNextHeight(cache)
       /\ GetFirstHeight(cache') <= GetNextHeight(cache')
       /\ GetNextHeight(cache') - GetNextHeight(cache) \in {-1, 0, 1}
       /\ \A g \in Loops :
             /\ Len(calls'[g]) <= 1
             /\ BootstrapCase(g) =>
                   /\ pc'[g] = "done"
                   /\ slept'[g] > 0
                   /\ \A i \in 1..Len(calls'[g]) : calls'[g][i].op # "Reorg"
                   /\ cache'.blocks = cache.blocks
                   /\ GetNextHeight(cache') = GetNextHeight(cache)]_vars
\* The loop has left through the bootstrapping branch, the cache still empty.
C16_Witness ==
    /\ pc[1] = "done"
    /\ slept[1] = BootstrapSleep
    /\ GetNextHeight(cache) = GetFirstHeight(cache)
    /\ cache.blocks = <<>>

\* C17: for one sequential caller start and stop are idempotent.  A
\* startIngestor that finds ingestorRunning set starts no loop and changes
\* nothing; a stopIngestor that finds it clear returns without a send on
\* stopIngestorChan and changes nothing; the flag is set when a start returns
\* and clear when a stop returns, and only the caller writes it, so the
\* second of two consecutive starts, or stops, is such a call without effect;
\* and there is never more than one loop.
InStart(p) == p \in {"start_set", "start_go", "start_noop"}
InStop(p) == p \in {"stop_set", "stop_send", "stop_noop"}
C17_StartStopIdempotent ==
    [][/\ callerPc[1] = "idle" /\ ingestorRunning /\ InStart(callerPc'[1]) =>
             callerPc'[1] = "start_noop"
       /\ callerPc[1] = "idle" /\ ~ingestorRunning /\ InStop(callerPc'[1]) =>
             callerPc'[1] = "stop_noop"
       /\ callerPc[1] \in {"start_noop", "stop_noop"} /\ callerPc'[1] # callerPc[1] =>
             /\ callerPc'[1] = "idle"
             /\ UNCHANGED <<ingestVars, ingestorRunning, readVars>>
       /\ InStart(callerPc[1]) /\ callerPc'[1] = "idle" => ingestorRunning'
       /\ InStop(callerPc[1]) /\ callerPc'[1] = "idle" => ~ingestorRunning'
       /\ ingestorRunning' # ingestorRunning =>
             callerPc[1] \in {"start_set", "stop_set"}
       /\ Cardinality({g \in Loops : pc'[g] \in {"select", "compare", "fetch", "apply"}}) <= 1
      ]_vars
\* A second start is returning without effect while the loop of the first
\* is running.
C17_Witness ==
    /\ callerPc[1] = "start_noop"
    /\ ingestorRunning
    /\ \E g \in Loops : Live(g)
    /\ \A g \in Loops : ~Live(g) => pc[g] = "none"

\* C18: when the block fetched at n = GetNextHeight() is not nil, does not
\* chain onto the cache's tail, and the cache holds blocks, the iteration
\* calls Reorg(n - 2): GetNextHeight() becomes n - 1, the tail block is
\* dropped and the blocks below it stay as they were.
RollbackCase(g) ==
    /\ pc[g] = "apply"
    /\ height[g] = GetNextHeight(cache)
    /\ height[g] > GetFirstHeight(cache)
    /\ block[g] # NilBlock
    /\ ~HashMatch(cache, block[g].prevHash)
C18_RollbackDropsTail ==
    [][\A g \in Loops :
          RollbackCase(g) =>
              /\ calls'[g] = <<Call("Reorg", height[g] - 2)>>
              /\ GetNextHeight(cache') = height[g] - 1
              /\ cache'.blocks = SubSeq(cache.blocks, 1, Len(cache.blocks) - 1)
      ]_vars

\* C19: the ingestor calls Sync() only in an iteration whose best-block hash
\* equals the cache's latest hash, so the synced indicator is never set while
\* the cache is empty or its tail is not the observed tip; and Sync() changes
\* neither the stored blocks nor nextHeight.
CallsSync(g) ==
    /\ calls'[g] # calls[g]
    /\ Len(calls'[g]) > 0
    /\ calls'[g][Len(calls'[g])].op = "Sync"
C19_SyncOnlyAtTip ==
    [][\A g \in Loops :
          CallsSync(g) =>
              /\ IsSynced(cache, lastBestBlockHash[g])
              /\ cache.blocks # <<>>
              /\ cache'.blocks = cache.blocks
              /\ GetNextHeight(cache') = GetNextHeight(cache)
      ]_vars

\* C20: the run-state flag tracks the loop: whenever no ingestion loop is
\* live and no startIngestor or stopIngestor call is under way,
\* ingestorRunning is false, also after the loop has left by itself through
\* the bootstrapping branch.
C20_FlagTracksLoop ==
    (/\ \A g \in Loops : ~Live(g)
     /\ \A k \in Callers : callerPc[k] = "idle")
        => ~ingestorRunning

====
